---- MODULE Spec2Model ----
(***************************************************************************)
(* Model of src/segment_tree.rs: SegmentTree<T>, an array-backed segment   *)
(* tree over a monoid T, with point update (set, mappend), point read      *)
(* (get) and range query (query / q).                                      *)
(*                                                                         *)
(* usize values are represented by their two's-complement reading: a small *)
(* non-negative integer k stands for k, a negative integer -k stands for   *)
(* usize::MAX + 1 - k.  With that reading wrapping addition is integer     *)
(* addition, and `small + big` overflows exactly when the sum is >= 0.     *)
(* Arithmetic overflow panics when the build has overflow checks (debug    *)
(* profile) and wraps when it has not (release profile); the profile is    *)
(* the variable overflow_checks, chosen once in Init.                      *)
(***************************************************************************)
EXTENDS Integers, Sequences, FiniteSets, TLC

\* Largest logical length of a constructed tree.
MaxLen == 3

VARIABLES
    len,              \* SegmentTree::len
    v,                \* SegmentTree::v, a function 0..(2n-2) -> Monoid
    overflow_checks,  \* build profile: TRUE = overflow panics, FALSE = wraps
    last,             \* the last call: operation, arguments, outcome, result
    arr               \* reference: a plain array of length len written alongside,
                      \* NoArr once a completed write had an index outside it

vars == <<len, v, overflow_checks, last, arr>>

(***************************************************************************)
(* The monoid T.  The tree is generic over T: Clone + Monoid; the model    *)
(* instantiates T with the identity and the two constant maps of {1, 2}   *)
(* under composition (x then y), a lawful monoid that is not commutative.  *)
(***************************************************************************)
Monoid == {<<1, 2>>, <<1, 1>>, <<2, 2>>}

T_mempty == <<1, 2>>

T_mappend(x, y) == <<y[x[1]], y[x[2]]>>

\* Monoid::mconcat over arr[l..r): left-to-right fold seeded with mempty.
RECURSIVE mconcat(_, _, _)
mconcat(s, l, r) ==
    IF l >= r THEN T_mempty ELSE T_mappend(mconcat(s, l, r - 1), s[r - 1])

(***************************************************************************)
(* usize helpers                                                           *)
(***************************************************************************)
RECURSIVE pow2_from(_, _)
pow2_from(p, x) == IF p >= x THEN p ELSE pow2_from(2 * p, x)

next_power_of_two(x) == pow2_from(1, x)

\* unsigned comparison a <= b on the two's-complement reading
ULe(a, b) == IF (a >= 0) = (b >= 0) THEN a <= b ELSE a >= 0

ULt(a, b) == ULe(a, b) /\ a # b

min(a, b) == IF a <= b THEN a ELSE b

max(a, b) == IF a >= b THEN a ELSE b

\* usize::MAX on the two's-complement reading
UsizeMax == 0 - 1

\* Values of the index arguments: every index up to the largest padded
\* capacity (one past the last leaf of the largest tree), and usize::MAX.
MaxIdx == next_power_of_two(MaxLen)

Usize == (0 .. MaxIdx) \cup {UsizeMax}

NoArr == <<"no reference">>

\* (self.v.len() + 1) / 2
cap(vv) == (Cardinality(DOMAIN vv) + 1) \div 2

vlen(vv) == Cardinality(DOMAIN vv)

NoRet == <<>>

(***************************************************************************)
(* SegmentTree::init                                                       *)
(***************************************************************************)
RECURSIVE init_leaves(_, _, _, _)
init_leaves(vv, n, s, i) ==
    IF i < Cardinality(DOMAIN s)
    THEN init_leaves([vv EXCEPT ![n - 1 + i] = s[i]], n, s, i + 1)
    ELSE vv

RECURSIVE init_row(_, _, _, _)
init_row(vv, ofs, l, i) ==
    IF i < l
    THEN LET ix == ofs + i
         IN  init_row([vv EXCEPT ![ix] = T_mappend(vv[ix * 2 + 1], vv[ix * 2 + 2])],
                      ofs, l, i + 1)
    ELSE vv

RECURSIVE init_levels(_, _, _)
init_levels(vv, l, ofs) ==
    IF l > 0
    THEN LET l2 == l \div 2
         IN  init_levels(init_row(vv, ofs, l, 0), l2, ofs - l2)
    ELSE vv

init(length, s) ==
    LET n  == next_power_of_two(length)
        v0 == [k \in 0 .. (n * 2 - 2) |-> T_mempty]
        v1 == init_leaves(v0, n, s, 0)
        l  == n \div 2
    IN  init_levels(v1, l, n - 1 - l)

(***************************************************************************)
(* n - 1 + i in get and set: the sum, and whether the addition overflows   *)
(***************************************************************************)
leaf_overflows(vv, i) == i < 0 /\ cap(vv) - 1 + i >= 0

leaf_index(vv, i) == cap(vv) - 1 + i

in_bounds(vv, ix) == ix >= 0 /\ ix < vlen(vv)

(***************************************************************************)
(* SegmentTree::set                                                        *)
(***************************************************************************)
\* set with the leaf index off by one (n + i for n - 1 + i)
set_wrongLeaf(vv, i, x, oc) ==
    LET cur == cap(vv) + i
    IN  IF oc /\ i < 0 /\ cur >= 0 THEN [outcome |-> "panic", v |-> vv]
        ELSE IF ~in_bounds(vv, cur) THEN [outcome |-> "panic", v |-> vv]
        ELSE [outcome |-> "ok", v |-> [vv EXCEPT ![cur] = x]]

\* set that stores into the root before the leaf index is checked
set_writeFirst(vv, i, x, oc) ==
    LET cur == leaf_index(vv, i)
    IN  IF (oc /\ leaf_overflows(vv, i)) \/ ~in_bounds(vv, cur)
        THEN [outcome |-> "panic", v |-> [vv EXCEPT ![0] = x]]
        ELSE [outcome |-> "ok", v |-> [vv EXCEPT ![cur] = x]]

RECURSIVE set_walk(_, _)
set_walk(vv, cur) ==
    IF cur > 0
    THEN LET c == (cur - 1) \div 2
         IN  set_walk([vv EXCEPT ![c] = T_mappend(vv[c * 2 + 1], vv[c * 2 + 2])], c)
    ELSE vv

set(vv, i, x, oc) ==
    LET cur == leaf_index(vv, i)
    IN  IF oc /\ leaf_overflows(vv, i) THEN [outcome |-> "panic", v |-> vv]
        ELSE IF ~in_bounds(vv, cur)    THEN [outcome |-> "panic", v |-> vv]
        ELSE [outcome |-> "ok", v |-> set_walk([vv EXCEPT ![cur] = x], cur)]

(***************************************************************************)
(* SegmentTree::get                                                        *)
(***************************************************************************)
\* get with the leaf index off by one (n + i for n - 1 + i)
get_wrongLeaf(vv, i, oc) ==
    LET ix == cap(vv) + i
    IN  IF oc /\ i < 0 /\ ix >= 0 THEN [outcome |-> "panic", ret |-> NoRet]
        ELSE IF ~in_bounds(vv, ix) THEN [outcome |-> "panic", ret |-> NoRet]
        ELSE [outcome |-> "ok", ret |-> vv[ix]]

get(vv, i, oc) ==
    LET ix == leaf_index(vv, i)
    IN  IF oc /\ leaf_overflows(vv, i) THEN [outcome |-> "panic", ret |-> NoRet]
        ELSE IF ~in_bounds(vv, ix)     THEN [outcome |-> "panic", ret |-> NoRet]
        ELSE [outcome |-> "ok", ret |-> vv[ix]]

(***************************************************************************)
(* SegmentTree::mappend                                                    *)
(***************************************************************************)
\* mappend with the operands exchanged: mappend(value, current)
mappend_swapped(vv, i, x, oc) ==
    LET g == get(vv, i, oc)
    IN  IF g.outcome = "panic" THEN [outcome |-> "panic", v |-> vv]
        ELSE set(vv, i, T_mappend(x, g.ret), oc)

mappend(vv, i, x, oc) ==
    LET g == get(vv, i, oc)
    IN  IF g.outcome = "panic" THEN [outcome |-> "panic", v |-> vv]
        ELSE set(vv, i, T_mappend(g.ret, x), oc)

(***************************************************************************)
(* SegmentTree::q and SegmentTree::query.  q returns the value together    *)
(* with the set of storage slots it read.                                  *)
(***************************************************************************)
\* q combining the right child before the left child
RECURSIVE q_swapped(_, _, _, _, _)
q_swapped(vv, ix, span, l, r) ==
    IF l = r THEN [ret |-> T_mempty, reads |-> {}]
    ELSE IF r - l = span THEN [ret |-> vv[ix], reads |-> {ix}]
    ELSE LET m  == span \div 2
             lo == q_swapped(vv, ix * 2 + 1, m, min(l, m), min(r, m))
             hi == q_swapped(vv, ix * 2 + 2, m, max(l, m) - m, max(r, m) - m)
         IN  [ret |-> T_mappend(hi.ret, lo.ret), reads |-> lo.reads \cup hi.reads]

\* q answering an empty range with the node's cached aggregate
RECURSIVE q_emptyReadsNode(_, _, _, _, _)
q_emptyReadsNode(vv, ix, span, l, r) ==
    IF l = r THEN [ret |-> vv[ix], reads |-> {ix}]
    ELSE IF r - l = span THEN [ret |-> vv[ix], reads |-> {ix}]
    ELSE LET m  == span \div 2
             lo == q_emptyReadsNode(vv, ix * 2 + 1, m, min(l, m), min(r, m))
             hi == q_emptyReadsNode(vv, ix * 2 + 2, m, max(l, m) - m, max(r, m) - m)
         IN  [ret |-> T_mappend(lo.ret, hi.ret), reads |-> lo.reads \cup hi.reads]

RECURSIVE q(_, _, _, _, _)
q(vv, ix, span, l, r) ==
    IF l = r THEN [ret |-> T_mempty, reads |-> {}]
    ELSE IF r - l = span THEN [ret |-> vv[ix], reads |-> {ix}]
    ELSE LET m  == span \div 2
             lo == q(vv, ix * 2 + 1, m, min(l, m), min(r, m))
             hi == q(vv, ix * 2 + 2, m, max(l, m) - m, max(r, m) - m)
         IN  [ret |-> T_mappend(lo.ret, hi.ret), reads |-> lo.reads \cup hi.reads]

\* query without assert!(r <= self.len)
query_noLenAssert(vv, length, l, r) ==
    IF ~ULe(l, r) THEN [outcome |-> "panic", ret |-> NoRet, reads |-> {}]
    ELSE IF ~ULe(r, cap(vv)) THEN [outcome |-> "panic", ret |-> NoRet, reads |-> {}]
    ELSE LET res == q(vv, 0, cap(vv), l, r)
         IN  [outcome |-> "ok", ret |-> res.ret, reads |-> res.reads]

query(vv, length, l, r) ==
    IF ~ULe(l, r)           THEN [outcome |-> "panic", ret |-> NoRet, reads |-> {}]
    ELSE IF ~ULe(r, length) THEN [outcome |-> "panic", ret |-> NoRet, reads |-> {}]
    ELSE LET res == q(vv, 0, cap(vv), l, r)
         IN  [outcome |-> "ok", ret |-> res.ret, reads |-> res.reads]

(***************************************************************************)
(* The state machine                                                       *)
(***************************************************************************)
Call(op, i, j, x, outcome, ret, reads) ==
    [op |-> op, i |-> i, j |-> j, x |-> x, outcome |-> outcome, ret |-> ret,
     reads |-> reads]

\* SegmentTree::new(n)
InitNew ==
    \E n \in 0 .. MaxLen :
        /\ len = n
        /\ v = init(n, <<>>)
        /\ arr = [k \in 0 .. (n - 1) |-> T_mempty]
        /\ last = Call("new", n, 0, T_mempty, "ok", NoRet, {})

\* SegmentTree::from_slice(s).  The elements are of type T itself, so that
\* `.clone().into()` is the reflexive conversion T -> T; the same holds for
\* the value arguments of set and mappend.
InitFromSlice ==
    \E n \in 0 .. MaxLen : \E s \in [0 .. (n - 1) -> Monoid] :
        /\ len = n
        /\ v = init(n, s)
        /\ arr = s
        /\ last = Call("from_slice", n, 0, T_mempty, "ok", NoRet, {})

Init ==
    /\ overflow_checks \in BOOLEAN
    /\ InitNew \/ InitFromSlice

Set ==
    \E i \in Usize, x \in Monoid :
        LET res == set(v, i, x, overflow_checks)
        IN  /\ v' = res.v
            /\ last' = Call("set", i, 0, x, res.outcome, NoRet, {})
            /\ arr' = IF res.outcome = "panic" \/ arr = NoArr THEN arr
                      ELSE IF ULt(i, len) THEN [arr EXCEPT ![i] = x]
                      ELSE NoArr
            /\ UNCHANGED <<len, overflow_checks>>

Mappend ==
    \E i \in Usize, x \in Monoid :
        LET res == mappend(v, i, x, overflow_checks)
        IN  /\ v' = res.v
            /\ last' = Call("mappend", i, 0, x, res.outcome, NoRet, {})
            /\ arr' = IF res.outcome = "panic" \/ arr = NoArr THEN arr
                      ELSE IF ULt(i, len) THEN [arr EXCEPT ![i] = T_mappend(arr[i], x)]
                      ELSE NoArr
            /\ UNCHANGED <<len, overflow_checks>>

Get ==
    \E i \in Usize :
        LET res == get(v, i, overflow_checks)
        IN  /\ last' = Call("get", i, 0, T_mempty, res.outcome, res.ret, {})
            /\ UNCHANGED <<len, v, overflow_checks, arr>>

Query ==
    \E l \in Usize, r \in Usize :
        LET res == query(v, len, l, r)
        IN  /\ last' = Call("query", l, r, T_mempty, res.outcome, res.ret, res.reads)
            /\ UNCHANGED <<len, v, overflow_checks, arr>>

Next == Set \/ Mappend \/ Get \/ Query

Spec == Init /\ [][Next]_vars

TypeOK ==
    /\ len \in 0 .. MaxLen
    /\ v \in [0 .. (2 * next_power_of_two(len) - 2) -> Monoid]
    /\ arr = NoArr \/ arr \in [0 .. (len - 1) -> Monoid]
    /\ overflow_checks \in BOOLEAN
    /\ last.outcome \in {"ok", "panic"}

(***************************************************************************)
(* Vocabulary of the properties                                            *)
(***************************************************************************)
\* the internal nodes of a storage vector of capacity n: 0 .. n-2
internal(vv) == 0 .. (cap(vv) - 2)

consistent(vv) ==
    \A ix \in internal(vv) : vv[ix] = T_mappend(vv[ix * 2 + 1], vv[ix * 2 + 2])

\* a storage slot and its ancestors up to the root
RECURSIVE path(_)
path(cur) == IF cur > 0 THEN {cur} \cup path((cur - 1) \div 2) ELSE {cur}

\* the value at logical position i, read from its leaf
leaf(vv, i) == vv[cap(vv) - 1 + i]

(***************************************************************************)
(* Properties                                                              *)
(***************************************************************************)

\* C1: after construction and after every completed set / mappend, every
\* internal node ix holds mappend(storage[2ix+1], storage[2ix+2]).
C1_TreeConsistency == consistent(v)

\* C2: as long as every completed write had i < len, query(l, r) returns
\* for every 0 <= l <= r <= len the left-to-right fold of the reference
\* array over [l, r), the lower positions as the left operand.
C2_QueryAgreesWithArray ==
    arr # NoArr =>
        \A l \in 0 .. len : \A r \in l .. len :
            LET res == query(v, len, l, r)
            IN  res.outcome = "ok" /\ res.ret = mconcat(arr, l, r)

C2_Witness ==
    /\ arr # NoArr
    /\ last.op = "query" /\ last.outcome = "ok"
    /\ last.j = last.i + 2
    /\ arr[last.i] # T_mempty /\ arr[last.i + 1] # T_mempty
    /\ arr[last.i] # arr[last.i + 1]
    /\ arr # [k \in 0 .. (len - 1) |-> leaf(init(len, <<>>), k)]

\* C3: every leaf at a logical position p with len <= p < n holds mempty in
\* every reachable state.
C3_PaddingIdentity ==
    \A p \in len .. (cap(v) - 1) : leaf(v, p) = T_mempty

\* C4: get(i), set(i, x) and mappend(i, x) with i >= len end in an error.
C4_IndexRejected ==
    (last.op \in {"get", "set", "mappend"} /\ ULe(len, last.i))
        => last.outcome = "panic"

\* C5: query(l, r) with l > r or r > len aborts: no value is returned and no
\* node is read.
C5_QueryFailsFast ==
    (last.op = "query" /\ (~ULe(last.i, last.j) \/ ~ULe(last.j, len)))
        => (last.outcome = "panic" /\ last.ret = NoRet /\ last.reads = {})

C5_Witness ==
    /\ last.op = "query" /\ last.outcome = "panic"
    /\ last.i <= last.j /\ len < last.j /\ last.j <= cap(v)
    /\ v[0] # T_mempty

\* C6: a call that aborts leaves len and every storage slot as they were, so
\* a consistent tree stays consistent.
C6_NoPartialMutation ==
    [][last'.outcome = "panic"
         => (v' = v /\ len' = len /\ (consistent(v) => consistent(v')))]_vars

C6_Witness ==
    /\ last.op \in {"set", "mappend"} /\ last.outcome = "panic"
    /\ v[0] # T_mempty

\* C7: set(i, x) with i < len completes; afterwards get(i) = x, every other
\* logical position and len are unchanged, and the only storage slots that
\* may differ are the leaf n-1+i and its ancestors.
C7_PointUpdateFrame ==
    [][(last'.op = "set" /\ ULt(last'.i, len))
         => LET i == last'.i
            IN  /\ last'.outcome = "ok"
                /\ get(v', i, overflow_checks) = [outcome |-> "ok", ret |-> last'.x]
                /\ \A j \in (0 .. (len - 1)) \ {i} :
                       get(v', j, overflow_checks) = get(v, j, overflow_checks)
                /\ len' = len
                /\ DOMAIN v' = DOMAIN v
                /\ \A k \in (DOMAIN v) \ path(cap(v) - 1 + i) : v'[k] = v[k]]_vars

C7_Witness ==
    /\ last.op = "set" /\ last.outcome = "ok" /\ ULt(last.i, len)
    /\ len = MaxLen
    /\ last.x # T_mempty
    /\ \E j \in (0 .. (len - 1)) \ {last.i} : leaf(v, j) \notin {T_mempty, last.x}

\* C8: mappend(i, x) with i < len completes; if get(i) was p before, then
\* get(i) is mappend(p, x) afterwards (p on the left), and every other
\* logical position is unchanged.
C8_Accumulate ==
    [][(last'.op = "mappend" /\ ULt(last'.i, len))
         => LET i == last'.i
            IN  /\ last'.outcome = "ok"
                /\ get(v', i, overflow_checks).ret
                       = T_mappend(get(v, i, overflow_checks).ret, last'.x)
                /\ \A j \in (0 .. (len - 1)) \ {i} :
                       get(v', j, overflow_checks) = get(v, j, overflow_checks)]_vars

C8_Witness ==
    /\ last.op = "mappend" /\ last.outcome = "ok" /\ ULt(last.i, len)
    /\ last.x # T_mempty
    /\ leaf(v, last.i) = last.x
    /\ \E j \in (0 .. (len - 1)) \ {last.i} : leaf(v, j) \notin {T_mempty, last.x}

\* C9 as stated: query(i, i) returns mempty for every i.
C9_EmptyRangeAnyIndex ==
    (last.op = "query" /\ last.i = last.j)
        => (last.outcome = "ok" /\ last.ret = T_mempty)

\* C9 amended: query(i, i) returns mempty, reading no node, for every
\* i <= len; for i > len the call aborts.
C9_EmptyRange ==
    (last.op = "query" /\ last.i = last.j)
        => IF ULe(last.i, len)
           THEN last.outcome = "ok" /\ last.ret = T_mempty /\ last.reads = {}
           ELSE last.outcome = "panic"

C9_Witness ==
    /\ last.op = "query" /\ last.i = last.j /\ ULe(last.i, len)
    /\ last.outcome = "ok"
    /\ v[0] # T_mempty

\* C10: for every i < len, get(i) returns what query(i, i+1) returns, and
\* neither get nor query changes len or a storage slot.
C10_GetIsUnitQuery ==
    /\ [](\A i \in 0 .. (len - 1) :
            LET g == get(v, i, overflow_checks)
                u == query(v, len, i, i + 1)
            IN  g.outcome = "ok" /\ u.outcome = "ok" /\ g.ret = u.ret)
    /\ [][last'.op \in {"get", "query"} => (v' = v /\ len' = len)]_vars

C10_Witness ==
    /\ last.op = "get" /\ last.outcome = "ok" /\ ULt(last.i, len)
    /\ last.ret # T_mempty
    /\ query(v, len, last.i, last.i + 1).ret = last.ret
    /\ \E j \in (0 .. (len - 1)) \ {last.i} : leaf(v, j) \notin {T_mempty, last.ret}
====
